---- MODULE Spec2Model ----
(***************************************************************************)
(* Model of src/ipts.c: the IPTS heatmap-to-multitouch driver loop.        *)
(*                                                                         *)
(* The program is one sequential loop (main, lines 252-539): read a        *)
(* 7485-byte transport buffer, walk its nested headers, and for every      *)
(* heatmap report (type 0x25) normalise the samples, segment them into     *)
(* clusters, compute each cluster's geometry, veto / suppress clusters,    *)
(* pair them with the previous buffer's clusters, hand out fresh ids and   *)
(* emit the multi-touch events.                                            *)
(*                                                                         *)
(* Floats of the source are modelled by exact reduced rationals [n, d]     *)
(* (d > 0).  The sample levels the frame source offers are multiples of 50 *)
(* so that every float the source computes from them is a short fraction.  *)
(***************************************************************************)
EXTENDS Integers, Sequences, FiniteSets, TLC

\* ------------------------------------------------------------------------
\* Program constants (src/ipts.c)
\* ------------------------------------------------------------------------
SCALE == 16
WIDTH == 64
HEIGHT == 44
MAX_CLUSTER_SIZE == 128
MAX_CLUSTERS == 16
\* malloc(7485) / read(fd, buf, 7485)
BUF_SIZE == 7485
\* "255 - raw - 100": the background bias
BIAS == 100
\* "for (int n = 0; n < 6; n++)": the slots emitted per frame
MATCH_SLOTS == 6
\* sizeof of the packed headers
HID_HEADER_SIZE == 10
RAW_HEADER_SIZE == 12
RAW_FRAME_HEADER_SIZE == 16
REPORT_HEADER_SIZE == 4
STYLUS_REPORT_SIZE == 8
STYLUS_ELEMENT_SIZE == 16
\* the header type codes the decoder tests
HID_TYPE_RAW == 238
FRAME_TYPE_A == 6
FRAME_TYPE_B == 8
REPORT_STYLUS == 96
REPORT_HEATMAP == 37
\* float closest_distance = 1000000
FAR_DISTANCE == 1000000

HEATMAP_BYTES == WIDTH * HEIGHT

\* ------------------------------------------------------------------------
\* Exact rationals standing for the source's floats
\* ------------------------------------------------------------------------
RECURSIVE Gcd(_, _)
Gcd(a, b) == IF b = 0 THEN a ELSE Gcd(b, a % b)

Abs(a) == IF a < 0 THEN -a ELSE a

Rat(n, d) ==
  LET g == Gcd(Abs(n), Abs(d))
      s == IF d < 0 THEN -1 ELSE 1
  IN  [n |-> (s * n) \div g, d |-> (s * d) \div g]

RInt(k) == [n |-> k, d |-> 1]
RAdd(a, b) == Rat(a.n * b.d + b.n * a.d, a.d * b.d)
RSub(a, b) == Rat(a.n * b.d - b.n * a.d, a.d * b.d)
RMul(a, b) == Rat(a.n * b.n, a.d * b.d)
RDiv(a, b) == Rat(a.n * b.d, a.d * b.n)
RLess(a, b) == a.n * b.d < b.n * a.d
RMin(a, b) == IF RLess(b, a) THEN b ELSE a
RMax(a, b) == IF RLess(a, b) THEN b ELSE a
\* (int) of a non-negative float: truncation
RTrunc(a) == a.n \div a.d

\* TRUE for every value.  The loops below test it on what the iteration
\* before has built, so that each iteration is complete before the next
\* one starts, as in the source.
Evaluated(v) == v = v

\* ------------------------------------------------------------------------
\* Data: struct pixel, struct cluster, struct cluster_group
\* ------------------------------------------------------------------------
\* A cluster after memset(0): size 0 (pixels is the empty sequence; size is
\* its length), every float 0.0, valid 0, id 0.
ZeroCluster ==
  [pixels |-> <<>>,
   centre_x |-> RInt(0), centre_y |-> RInt(0),
   x1 |-> RInt(0), y1 |-> RInt(0), x2 |-> RInt(0), y2 |-> RInt(0),
   diameter |-> RInt(0), valid |-> 0, id |-> 0]

\* A cluster group after memset(0).  clusters is indexed 0 .. MAX_CLUSTERS-1.
ZeroGroup == [size |-> 0, clusters |-> [i \in 0..(MAX_CLUSTERS - 1) |-> ZeroCluster]]

\* ------------------------------------------------------------------------
\* Heatmap normaliser (main, lines 315-326)
\* ------------------------------------------------------------------------
\* A raw heatmap payload is a function from the byte offsets that differ
\* from the background to their byte; every other byte of the 2816 is 255.
RawAt(raw, k) == IF k \in DOMAIN raw THEN raw[k] ELSE 255

PixelValue(raw, x, y) ==
  LET xx == WIDTH - x - 1
      yy == HEIGHT - y - 1
      value == 255 - RawAt(raw, yy * WIDTH + xx) - BIAS
  IN  IF value < 0 THEN 0 ELSE value

\* pixels[]: the grid as a function from y*WIDTH+x to struct pixel, kept for
\* the cells whose value is not 0 (every other cell has value 0).
Normalise(raw) ==
  LET lit == {k \in DOMAIN raw : 255 - raw[k] - BIAS > 0}
      idx(k) == (HEIGHT - (k \div WIDTH) - 1) * WIDTH + (WIDTH - (k % WIDTH) - 1)
  IN  [p \in {idx(k) : k \in lit} |->
         [x |-> p % WIDTH, y |-> p \div WIDTH,
          value |-> PixelValue(raw, p % WIDTH, p \div WIDTH)]]

ValueAt(pixels, x, y) ==
  IF (y * WIDTH + x) \in DOMAIN pixels THEN pixels[y * WIDTH + x].value ELSE 0

\* ------------------------------------------------------------------------
\* Segmenter: is_brightest (lines 129-145), assign_group_dimmer (96-126)
\* ------------------------------------------------------------------------
\* The 8 neighbours in the order both functions visit them, with the
\* source's image-bounds tests.
Neighbours(x, y) ==
  LET cand == << <<x - 1, y - 1>>, <<x - 1, y>>, <<x - 1, y + 1>>,
                 <<x, y - 1>>, <<x, y + 1>>,
                 <<x + 1, y - 1>>, <<x + 1, y>>, <<x + 1, y + 1>> >>
      ok(c) == c[1] >= 0 /\ c[1] <= WIDTH - 1 /\ c[2] >= 0 /\ c[2] <= HEIGHT - 1
  IN  SelectSeq(cand, ok)

is_brightest(pixels, x, y) ==
  IF ValueAt(pixels, x, y) = 0 THEN FALSE
  ELSE \A k \in 1..Len(Neighbours(x, y)) :
         ~(ValueAt(pixels, x, y)
             < ValueAt(pixels, Neighbours(x, y)[k][1], Neighbours(x, y)[k][2]))

\* The size test as it would be if it let one more pixel in.
ClusterFullLate(members) == Len(members) > MAX_CLUSTER_SIZE

\* The "cluster has reached its maximum size" test of assign_group_dimmer.
ClusterFull(members) == Len(members) >= MAX_CLUSTER_SIZE

\* The "pixel is brighter than the threshold" test of assign_group_dimmer.
TooBright(value, threshold) == value > threshold

\* assign_group_dimmer on the member list of one cluster (cluster->pixels
\* with cluster->size = Len): the list after the call.  VisitNeighbours is
\* the run of the eight recursive calls from the k-th on, made in the
\* source's order under the source's image-bounds tests.
RECURSIVE assign_group_dimmer(_, _, _, _, _)
RECURSIVE VisitNeighbours(_, _, _, _, _)
VisitNeighbours(pixels, around, k, members, threshold) ==
  IF ~Evaluated(members) \/ k > Len(around) THEN members
  ELSE VisitNeighbours(pixels, around, k + 1,
         assign_group_dimmer(pixels, around[k][1], around[k][2], members, threshold),
         threshold)

assign_group_dimmer(pixels, x, y, members, threshold) ==
  IF ClusterFull(members) THEN members
  ELSE IF \E n \in 1..Len(members) : members[n].x = x /\ members[n].y = y THEN members
  ELSE IF ValueAt(pixels, x, y) = 0 THEN members
  ELSE IF TooBright(ValueAt(pixels, x, y), threshold) THEN members
  ELSE VisitNeighbours(pixels, Neighbours(x, y), 1,
         Append(members, pixels[y * WIDTH + x]), pixels[y * WIDTH + x].value)

\* The cells of a grid in row-major order (the y/x scan loops), restricted
\* to the cells is_brightest can accept (value > 0).
RECURSIVE ScanOrder(_)
ScanOrder(cells) ==
  IF cells = {} THEN <<>>
  ELSE LET m == CHOOSE c \in cells : \A o \in cells : c <= o
       IN  <<m>> \o ScanOrder(cells \ {m})

\* The "cluster_group->size < MAX_CLUSTERS" test of the seed loop.
GroupHasRoom(size) == size < MAX_CLUSTERS

\* Group pixels into clusters (lines 329-339): size is reset to 0, nothing
\* else of the group is; every seed takes the next slot while one is free
\* and floods into whatever that slot already holds.
RECURSIVE SeedLoop(_, _, _, _)
SeedLoop(pixels, order, k, group) ==
  IF ~Evaluated(group) \/ k > Len(order) THEN group
  ELSE IF /\ is_brightest(pixels, order[k] % WIDTH, order[k] \div WIDTH)
          /\ GroupHasRoom(group.size)
       THEN SeedLoop(pixels, order, k + 1,
              [size |-> group.size + 1,
               clusters |-> [group.clusters EXCEPT ![group.size].pixels =
                  assign_group_dimmer(pixels, order[k] % WIDTH, order[k] \div WIDTH, @,
                                      ValueAt(pixels, order[k] % WIDTH, order[k] \div WIDTH))]])
       ELSE SeedLoop(pixels, order, k + 1, group)

Segment(pixels, group) ==
  SeedLoop(pixels, ScanOrder(DOMAIN pixels), 1, [group EXCEPT !.size = 0])

\* ------------------------------------------------------------------------
\* Geometry (lines 341-365)
\* ------------------------------------------------------------------------
\* The sum of q[lo] .. q[hi] (the += accumulations of the inner loop).  The
\* terms are integers and every partial sum is below 2^24, so the float
\* sums of the source are exact and do not depend on the order of adding.
RECURSIVE SumSeq(_, _, _)
SumSeq(q, lo, hi) ==
  IF lo > hi THEN 0
  ELSE IF lo = hi THEN q[lo]
  ELSE SumSeq(q, lo, (lo + hi) \div 2) + SumSeq(q, (lo + hi) \div 2 + 1, hi)

\* The body of the per-cluster loop, the valid test excepted.
ClusterBounds(c) ==
  LET weighted_x == SumSeq([j \in 1..Len(c.pixels) |-> c.pixels[j].x * c.pixels[j].value], 1, Len(c.pixels))
      weighted_y == SumSeq([j \in 1..Len(c.pixels) |-> c.pixels[j].y * c.pixels[j].value], 1, Len(c.pixels))
      total_weight == SumSeq([j \in 1..Len(c.pixels) |-> c.pixels[j].value], 1, Len(c.pixels))
      centre_x == RAdd(Rat(weighted_x, total_weight), Rat(1, 2))
      centre_y == RAdd(Rat(weighted_y, total_weight), Rat(1, 2))
      diameter == Rat(total_weight, 100)
      half == RDiv(diameter, RInt(2))
  IN  [c EXCEPT !.centre_x = centre_x, !.centre_y = centre_y,
                !.diameter = diameter,
                !.x1 = RSub(centre_x, half), !.y1 = RSub(centre_y, half),
                !.x2 = RAdd(centre_x, half), !.y2 = RAdd(centre_y, half)]

\* "if (clusters[i].diameter > 0.5f) clusters[i].valid = 1": set, never cleared.
MarkValid(c) == IF RLess(Rat(1, 2), c.diameter) THEN [c EXCEPT !.valid = 1] ELSE c

Geometry(group) ==
  [group EXCEPT !.clusters =
     [i \in DOMAIN group.clusters |->
        IF i < group.size THEN MarkValid(ClusterBounds(group.clusters[i]))
        ELSE group.clusters[i]]]

\* disable_touch after the geometry loop.
DisableTouch(group) ==
  \E i \in 0..(group.size - 1) : RLess(RInt(10), group.clusters[i].diameter)

\* The veto as it would be if it passed over the first cluster of the set.
VetoAfterFirst(group) ==
  IF DisableTouch(group)
  THEN [group EXCEPT !.clusters =
          [i \in DOMAIN group.clusters |->
             IF 0 < i /\ i < group.size THEN [group.clusters[i] EXCEPT !.valid = 0]
             ELSE group.clusters[i]]]
  ELSE group

\* Giant-contact veto (lines 367-372).
Veto(group) ==
  IF DisableTouch(group)
  THEN [group EXCEPT !.clusters =
          [i \in DOMAIN group.clusters |->
             IF i < group.size THEN [group.clusters[i] EXCEPT !.valid = 0]
             ELSE group.clusters[i]]]
  ELSE group

\* ------------------------------------------------------------------------
\* Overlap suppression (lines 374-395)
\* ------------------------------------------------------------------------
Intersection(a, b) ==
  RMul(RMax(RInt(0), RSub(RMin(a.x2, b.x2), RMax(a.x1, b.x1))),
       RMax(RInt(0), RSub(RMin(a.y2, b.y2), RMax(a.y1, b.y1))))

Area(c) == RMul(RSub(c.x2, c.x1), RSub(c.y2, c.y1))

\* "intersection / area > 0.25"
Overlaps(intersection, area) == RLess(Rat(1, 4), RDiv(intersection, area))

\* The body of the pair loop as it would be if it invalidated the cluster
\* of the larger area.
OverlapLoserLarger(clusters, i, j) ==
  IF clusters[i].valid = 1 /\ clusters[j].valid = 1
  THEN IF RLess(Area(clusters[j]), Area(clusters[i]))
       THEN (IF Overlaps(Intersection(clusters[i], clusters[j]), Area(clusters[j]))
             THEN i ELSE -1)
       ELSE (IF Overlaps(Intersection(clusters[i], clusters[j]), Area(clusters[i]))
             THEN j ELSE -1)
  ELSE -1

\* The index the body of the pair loop invalidates for the pair (i, j), or
\* -1 when it invalidates none.
OverlapLoser(clusters, i, j) ==
  IF clusters[i].valid = 1 /\ clusters[j].valid = 1
  THEN LET intersection == Intersection(clusters[i], clusters[j])
           area_i == Area(clusters[i])
           area_j == Area(clusters[j])
       IN  IF RLess(area_j, area_i)
           THEN (IF Overlaps(intersection, area_j) THEN j ELSE -1)
           ELSE (IF Overlaps(intersection, area_i) THEN i ELSE -1)
  ELSE -1

\* The pairs (i, j), i < j < size, in the order the two loops visit them.
PairOrder(size) ==
  LET n == (size * (size - 1)) \div 2
      pairs == {<<i, j>> \in (0..(size - 1)) \X (0..(size - 1)) : i < j}
      rank(p) == Cardinality({q \in pairs : q[1] < p[1] \/ (q[1] = p[1] /\ q[2] < p[2])})
  IN  [k \in 1..n |-> CHOOSE p \in pairs : rank(p) = k - 1]

\* clusters after the body of the pair loop has run for the pair (i, j).
SuppressPair(clusters, loser) ==
  IF loser = -1 THEN clusters ELSE [clusters EXCEPT ![loser].valid = 0]

RECURSIVE OverlapLoop(_, _, _)
OverlapLoop(clusters, order, k) ==
  IF ~Evaluated(clusters) \/ k > Len(order) THEN clusters
  ELSE OverlapLoop(SuppressPair(clusters, OverlapLoser(clusters, order[k][1], order[k][2])),
                   order, k + 1)

RemoveOverlapping(group) ==
  [group EXCEPT !.clusters = OverlapLoop(@, PairOrder(group.size), 1)]

\* ------------------------------------------------------------------------
\* Tracker (lines 397-435)
\* ------------------------------------------------------------------------
\* pow(dx, 2) + pow(dy, 2)
Distance(c, p) ==
  RAdd(RMul(RSub(c.centre_x, p.centre_x), RSub(c.centre_x, p.centre_x)),
       RMul(RSub(c.centre_y, p.centre_y), RSub(c.centre_y, p.centre_y)))

\* "distance < closest_distance" against the initial 1000000: a distance is
\* not negative, so it is below the integer exactly when its integer part is.
Nearby(distance) == RTrunc(distance) < FAR_DISTANCE

\* The candidates of the inner loop: valid and not yet given an id.
Unmatched(c) == c.valid = 1 /\ c.id = 0

\* closest_index after the inner loop over m for one previous cluster:
\* the first index of least distance below 1000000, or -1.
ClosestIndex(clusters, size, p) ==
  LET cand == {m \in 0..(size - 1) :
                 Unmatched(clusters[m]) /\ Nearby(Distance(clusters[m], p))}
  IN  IF cand = {} THEN -1
      ELSE CHOOSE m \in cand :
             \A o \in cand :
               \/ RLess(Distance(clusters[m], p), Distance(clusters[o], p))
               \/ (~RLess(Distance(clusters[o], p), Distance(clusters[m], p)) /\ m <= o)

\* "if (closest_index != -1) clusters[closest_index].id = previous id"
Inherit(clusters, closest_index, id) ==
  IF closest_index # -1 THEN [clusters EXCEPT ![closest_index].id = id] ELSE clusters

\* The outer loop over the previous group's clusters n = k .. size-1.
RECURSIVE PairLoop(_, _, _, _)
PairLoop(clusters, size, previous, n) ==
  IF ~Evaluated(clusters) \/ n >= previous.size THEN clusters
  ELSE IF previous.clusters[n].valid = 0 THEN PairLoop(clusters, size, previous, n + 1)
  ELSE PairLoop(Inherit(clusters, ClosestIndex(clusters, size, previous.clusters[n]),
                        previous.clusters[n].id),
                size, previous, n + 1)

Correlate(group, previous) ==
  [group EXCEPT !.clusters = PairLoop(@, group.size, previous, 0)]

\* "Find the lowest unused ID": the while (1) loop.
RECURSIVE LowestUnused(_, _, _)
LowestUnused(clusters, size, id) ==
  IF \E n \in 0..(size - 1) : clusters[n].id = id
  THEN LowestUnused(clusters, size, id + 1)
  ELSE id

RECURSIVE NewIdLoop(_, _, _)
NewIdLoop(clusters, size, m) ==
  IF ~Evaluated(clusters) \/ m >= size THEN clusters
  ELSE IF Unmatched(clusters[m])
       THEN NewIdLoop([clusters EXCEPT ![m].id = LowestUnused(clusters, size, 1)], size, m + 1)
       ELSE NewIdLoop(clusters, size, m + 1)

AssignNewIds(group) == [group EXCEPT !.clusters = NewIdLoop(@, group.size, 0)]

\* ------------------------------------------------------------------------
\* Sink adapter (lines 495-525)
\* ------------------------------------------------------------------------
\* emit(fd, type, code, val): one input_event written to the sink.
emit(type, code, val) == [type |-> type, code |-> code, value |-> val]

\* valid_clusters as recounted at lines 495-500.
ValidClusters(group) ==
  Cardinality({n \in 0..(group.size - 1) : group.clusters[n].valid = 1})

\* "clusters[i].id == n + 1 && clusters[i].valid"
InSlot(c, n) == c.id = n + 1 /\ c.valid = 1

\* The events of the inner loop over i for slot n, and tracking_id after it.
RECURSIVE SlotLoop(_, _, _, _, _)
SlotLoop(group, valid_clusters, n, i, acc) ==
  IF i >= group.size THEN acc
  ELSE LET c == group.clusters[i]
       IN  IF InSlot(c, n)
           THEN SlotLoop(group, valid_clusters, n, i + 1,
                  [events |-> acc.events \o
                     << emit("EV_ABS", "ABS_MT_POSITION_X", RTrunc(RMul(c.centre_x, RInt(SCALE)))),
                        emit("EV_ABS", "ABS_MT_POSITION_Y", RTrunc(RMul(c.centre_y, RInt(SCALE)))),
                        emit("EV_ABS", "ABS_MT_TOUCH_MAJOR", RTrunc(RMul(c.diameter, RInt(SCALE)))) >>
                     \o (IF valid_clusters = 1
                         THEN << emit("EV_ABS", "ABS_X", RTrunc(RMul(c.centre_x, RInt(SCALE)))),
                                 emit("EV_ABS", "ABS_Y", RTrunc(RMul(c.centre_y, RInt(SCALE)))),
                                 emit("EV_KEY", "BTN_TOUCH", 1) >>
                         ELSE <<>>),
                   tracking_id |-> c.id])
           ELSE SlotLoop(group, valid_clusters, n, i + 1, acc)

RECURSIVE EmitSlots(_, _, _)
EmitSlots(group, valid_clusters, n) ==
  IF n >= MATCH_SLOTS THEN <<>>
  ELSE LET r == SlotLoop(group, valid_clusters, n, 0,
                         [events |-> <<>>, tracking_id |-> -1])
       IN  << emit("EV_ABS", "ABS_MT_SLOT", n) >> \o r.events
           \o << emit("EV_ABS", "ABS_MT_TRACKING_ID", r.tracking_id) >>
           \o EmitSlots(group, valid_clusters, n + 1)

\* Everything one heatmap report writes to the sink, in order.
EmitFrame(group) ==
  EmitSlots(group, ValidClusters(group), 0)
  \o (IF ValidClusters(group) # 1 THEN << emit("EV_KEY", "BTN_TOUCH", 0) >> ELSE <<>>)
  \o << emit("EV_SYN", "SYN_REPORT", 0) >>

\* ------------------------------------------------------------------------
\* One heatmap report, whole (lines 310-529, the debug drawing excepted):
\* the current group after it.
\* ------------------------------------------------------------------------
ProcessHeatmap(raw, group, previous) ==
  AssignNewIds(Correlate(RemoveOverlapping(Veto(Geometry(Segment(Normalise(raw), group)))),
                         previous))

\* ------------------------------------------------------------------------
\* State of the driver loop (main, lines 246-251 and the loop's locals)
\* ------------------------------------------------------------------------
VARIABLES
  cluster_groups,         \* the two cluster groups, indexed 0 and 1
  current_cluster_group,  \* the toggle
  pc,                     \* where the loop stands: "read", "frame", "report"
  pos,                    \* the read cursor into buf
  eof,                    \* end of the sub-frame being walked
  n,                      \* index of the sub-frame loop
  frames,                 \* ipts_raw_header->frames of the buffer
  last_read,              \* one past the highest buf offset the latest step read
  events,                 \* what the latest step wrote to the sink
  heatmaps,               \* heatmap reports processed since the latest full read
  prior_heatmaps,         \* heatmaps of the buffer before
  latest,                 \* history: the current set as the latest heatmap report left it
  pixels,                 \* the normalised grid (the pixels buffer of line 247)
  calls,                  \* pending assign_group_dimmer invocations, the next one first
  scan,                   \* y * WIDTH + x of the next cell of the seed scan
  pair,                   \* <<i, j>> of the overlap loops
  report_size             \* ipts_report_header->size of the report being processed

vars == <<cluster_groups, current_cluster_group, pc, pos, eof, n, frames,
          last_read, events, heatmaps, prior_heatmaps, latest,
          pixels, calls, scan, pair, report_size>>

\* The locals that only the step-by-step walk through a heatmap report uses.
walk == <<calls, scan, pair, report_size>>

\* cluster_group / previous_cluster_group as line 268-273 leave them: the
\* toggle has already been flipped when they are used.
cluster_group == cluster_groups[1 - current_cluster_group]
previous_cluster_group == cluster_groups[current_cluster_group]

Init ==
  /\ cluster_groups = [g \in 0..1 |-> ZeroGroup]
  /\ current_cluster_group = 0
  /\ pc = "read"
  /\ pos = 0
  /\ eof = 0
  /\ n = 0
  /\ frames = 0
  /\ last_read = 0
  /\ events = <<>>
  /\ heatmaps = 0
  /\ prior_heatmaps = 0
  /\ latest = ZeroGroup
  /\ pixels = <<>>
  /\ calls = <<>>
  /\ scan = 0
  /\ pair = <<0, 1>>
  /\ report_size = 0

\* ------------------------------------------------------------------------
\* The frame source: what a spec lets read() and the header fields yield
\* ------------------------------------------------------------------------
\* Payload offset of the sample that lands on pixel (x, y), and the byte
\* that normalises to value v (0 < v <= 155).
RawOffset(x, y) == (HEIGHT - 1 - y) * WIDTH + (WIDTH - 1 - x)
RawByte(v) == 255 - BIAS - v

\* The payload whose pixels are the triples <<x, y, v>> of lit, 0 elsewhere.
FrameOf(lit) ==
  [k \in {RawOffset(t[1], t[2]) : t \in lit} |->
     RawByte((CHOOSE t \in lit : RawOffset(t[1], t[2]) = k)[3])]

\* ------------------------------------------------------------------------
\* The loop's steps
\* ------------------------------------------------------------------------
\* Control after the body of the sub-frame loop: n++ and the loop test, then
\* fflush and back to read().
NextFrame ==
  /\ n' = n + 1
  /\ pc' = IF n + 1 < frames THEN "frame" ELSE "read"

\* read() returned fewer than 7485 bytes: lseek and continue (lines 261-266).
ShortRead ==
  /\ pc = "read"
  /\ events' = <<>>
  /\ last_read' = 0
  /\ UNCHANGED <<cluster_groups, current_cluster_group, pc, pos, eof, n, frames,
                 heatmaps, prior_heatmaps, latest, pixels, walk>>

\* A full read, the memset and toggle, the HID header and, for type 0xEE,
\* the raw header (lines 261-287).
ReadBuffer(hid_types, frame_counts) ==
  /\ pc = "read"
  /\ \E type \in hid_types, count \in frame_counts :
       /\ cluster_groups' = [cluster_groups EXCEPT ![current_cluster_group] = ZeroGroup]
       /\ current_cluster_group' = 1 - current_cluster_group
       /\ events' = <<>>
       /\ prior_heatmaps' = heatmaps
       /\ heatmaps' = 0
       /\ n' = 0
       /\ eof' = eof
       /\ UNCHANGED <<latest, pixels, walk>>
       /\ IF type = HID_TYPE_RAW
          THEN /\ pos' = HID_HEADER_SIZE + RAW_HEADER_SIZE
               /\ last_read' = HID_HEADER_SIZE + RAW_HEADER_SIZE
               /\ frames' = count
               /\ pc' = IF 0 < count THEN "frame" ELSE "read"
          ELSE /\ pos' = HID_HEADER_SIZE
               /\ last_read' = HID_HEADER_SIZE
               /\ frames' = frames
               /\ pc' = "read"

\* One sub-frame header (lines 288-295, 532-534).
FrameHeader(frame_types, frame_sizes) ==
  /\ pc = "frame"
  /\ \E type \in frame_types, size \in frame_sizes :
       /\ last_read' = pos + RAW_FRAME_HEADER_SIZE
       /\ eof' = pos + RAW_FRAME_HEADER_SIZE + size
       /\ events' = <<>>
       /\ UNCHANGED <<cluster_groups, current_cluster_group, frames,
                      heatmaps, prior_heatmaps, latest, pixels, walk>>
       /\ IF type = FRAME_TYPE_A \/ type = FRAME_TYPE_B
          THEN /\ pos' = pos + RAW_FRAME_HEADER_SIZE
               /\ IF 0 < size THEN pc' = "report" /\ n' = n ELSE NextFrame
          ELSE /\ pos' = pos + RAW_FRAME_HEADER_SIZE + size
               /\ NextFrame

\* Control after "pos += ipts_report_header->size": the while (pos < eof) test.
AfterReport(size) ==
  /\ pos' = pos + REPORT_HEADER_SIZE + size
  /\ IF pos + REPORT_HEADER_SIZE + size < eof
     THEN pc' = "report" /\ n' = n
     ELSE NextFrame
  /\ UNCHANGED <<current_cluster_group, frames, eof, prior_heatmaps>>

\* A stylus report (lines 301-309): the preamble and elements are read and
\* printed.
StylusReport(report_sizes, element_counts) ==
  /\ pc = "report"
  /\ \E size \in report_sizes, elements \in element_counts :
       /\ last_read' = pos + REPORT_HEADER_SIZE + STYLUS_REPORT_SIZE
                           + elements * STYLUS_ELEMENT_SIZE
       /\ events' = <<>>
       /\ UNCHANGED <<cluster_groups, heatmaps, latest, pixels, walk>>
       /\ AfterReport(size)

\* A report of a type the decoder does not know: skipped.
UnknownReport(report_sizes) ==
  /\ pc = "report"
  /\ \E size \in report_sizes :
       /\ last_read' = pos + REPORT_HEADER_SIZE
       /\ events' = <<>>
       /\ UNCHANGED <<cluster_groups, heatmaps, latest, pixels, walk>>
       /\ AfterReport(size)

\* A heatmap report (lines 310-529).
HeatmapReport(report_sizes, payloads) ==
  /\ pc = "report"
  /\ \E size \in report_sizes, raw \in payloads :
       \E done \in {ProcessHeatmap(raw, cluster_group, previous_cluster_group)} :
           /\ last_read' = pos + REPORT_HEADER_SIZE + HEATMAP_BYTES
           /\ cluster_groups' = [cluster_groups EXCEPT ![1 - current_cluster_group] = done]
           /\ events' = EmitFrame(done)
           /\ heatmaps' = heatmaps + 1
           /\ latest' = done
           /\ pixels' = Normalise(raw)
           /\ UNCHANGED walk
           /\ AfterReport(size)

\* ------------------------------------------------------------------------
\* Spec: the driver loop on buffers that hold up to two heatmap reports
\* ------------------------------------------------------------------------
\* Contacts sit on sites of row 0, two cells apart (site k is pixel (2k, 0)),
\* each a single sample of value 150.
MaxContacts == 3
SiteFrame(sites) == FrameOf({<<2 * k, 0, 150>> : k \in sites})

\* The scenes of contacts: the first k sites touched, and the scenes in
\* which one inner contact has lifted while one lands on the next site.
Scenes ==
  {0..(k - 1) : k \in 0..MaxContacts}
  \cup {(0..MaxContacts) \ {j} : j \in 1..(MaxContacts - 1)}

\* A flat row of len samples of value 150 starting at pixel (0, 0), the last
\* one of value v: seven of them sum to more than 1000 (diameter > 10).
FlatRow(len, v) ==
  FrameOf({<<x, 0, 150>> : x \in 0..(len - 2)} \cup {<<len - 1, 0, v>>})

Payloads == {SiteFrame(sites) : sites \in Scenes} \cup {FlatRow(7, 150)}

Read == ReadBuffer({HID_TYPE_RAW, 0}, {0, 1})
Frame == FrameHeader({FRAME_TYPE_A, FRAME_TYPE_B, 0},
                     {REPORT_HEADER_SIZE + HEATMAP_BYTES,
                      2 * (REPORT_HEADER_SIZE + HEATMAP_BYTES)})
Stylus == StylusReport({HEATMAP_BYTES}, {1})
Unknown == UnknownReport({HEATMAP_BYTES})
Heatmap == HeatmapReport({HEATMAP_BYTES}, Payloads)

Next == ShortRead \/ Read \/ Frame \/ Stylus \/ Unknown \/ Heatmap

Spec == Init /\ [][Next]_vars

\* ------------------------------------------------------------------------
\* SpecSlots: one heatmap report per buffer, more contacts than slots
\* ------------------------------------------------------------------------
\* MATCH_SLOTS + 1 neighbouring sites touched from site 1 on, the same from
\* site 0 on, and a lone contact on each of the first two sites.
SlotScenes == {1..(MATCH_SLOTS + 1), 0..MATCH_SLOTS, {0}, {1}}

SlotRead == ReadBuffer({HID_TYPE_RAW}, {1})
SlotFrame == FrameHeader({FRAME_TYPE_A}, {REPORT_HEADER_SIZE + HEATMAP_BYTES})
SlotHeatmap == HeatmapReport({HEATMAP_BYTES}, {SiteFrame(sites) : sites \in SlotScenes})

NextSlots == SlotRead \/ SlotFrame \/ SlotHeatmap

SpecSlots == Init /\ [][NextSlots]_vars

\* ------------------------------------------------------------------------
\* SpecDecode: the header walk on buffers whose headers declare any of a
\* range of counts and sizes
\* ------------------------------------------------------------------------
MaxFrames == 2

DecodeRead == ReadBuffer({HID_TYPE_RAW, 0}, 0..MaxFrames)
DecodeFrame == FrameHeader({FRAME_TYPE_A, 0},
                           {REPORT_HEADER_SIZE + HEATMAP_BYTES, BUF_SIZE})
DecodeStylus == StylusReport({HEATMAP_BYTES}, {1, 255})
DecodeUnknown == UnknownReport({HEATMAP_BYTES, BUF_SIZE})
DecodeHeatmap == HeatmapReport({HEATMAP_BYTES}, {SiteFrame({0})})

NextDecode ==
  ShortRead \/ DecodeRead \/ DecodeFrame \/ DecodeStylus \/ DecodeUnknown \/ DecodeHeatmap

SpecDecode == Init /\ [][NextDecode]_vars

\* ------------------------------------------------------------------------
\* A heatmap report step by step (lines 310-529): the same code as
\* HeatmapReport, one step per assign_group_dimmer invocation, per seed of
\* the scan and per pair of the overlap loops
\* ------------------------------------------------------------------------
\* cluster_groups with the current group's size and clusters replaced.
WithCurrent(size, clusters) ==
  [cluster_groups EXCEPT ![1 - current_cluster_group] = [size |-> size, clusters |-> clusters]]

\* The report header, the normaliser and "cluster_group->size = 0"
\* (lines 297-328).
BeginHeatmap(report_sizes, payloads) ==
  /\ pc = "report"
  /\ \E size \in report_sizes, raw \in payloads :
       /\ report_size' = size
       /\ pixels' = Normalise(raw)
  /\ last_read' = pos + REPORT_HEADER_SIZE + HEATMAP_BYTES
  /\ cluster_groups' = WithCurrent(0, cluster_group.clusters)
  /\ scan' = 0
  /\ pc' = "seed"
  /\ events' = <<>>
  /\ UNCHANGED <<current_cluster_group, pos, eof, n, frames, heatmaps, prior_heatmaps,
                 latest, calls, pair>>

\* The cells the scan has still to visit that is_brightest can accept.
Unscanned == {k \in DOMAIN pixels : k >= scan}

\* The scan loops (lines 329-338) up to and including the next cell that is
\* not black: a brightest cell takes the next cluster slot while one is
\* free and is the first invocation of assign_group_dimmer on it.  After the
\* last cell the geometry loop and the veto run (lines 341-372).
SeedStep ==
  /\ pc = "seed"
  /\ IF Unscanned = {}
     THEN /\ cluster_groups' =
               [cluster_groups EXCEPT ![1 - current_cluster_group] = Veto(Geometry(@))]
          /\ pair' = <<0, 1>>
          /\ pc' = IF 1 < cluster_group.size THEN "overlap" ELSE "track"
          /\ UNCHANGED <<scan, calls>>
     ELSE \E k \in Unscanned :
            /\ \A o \in Unscanned : k <= o
            /\ scan' = k + 1
            /\ pair' = pair
            /\ IF is_brightest(pixels, k % WIDTH, k \div WIDTH) /\ GroupHasRoom(cluster_group.size)
               THEN /\ cluster_groups' = WithCurrent(cluster_group.size + 1, cluster_group.clusters)
                    /\ calls' = << [x |-> k % WIDTH, y |-> k \div WIDTH,
                                    threshold |-> pixels[k].value] >>
                    /\ pc' = "fill"
               ELSE /\ UNCHANGED <<cluster_groups, calls>>
                    /\ pc' = "seed"
  /\ events' = <<>>
  /\ UNCHANGED <<current_cluster_group, pos, eof, n, frames, last_read, heatmaps,
                 prior_heatmaps, latest, pixels, report_size>>

\* The invocations a cell that has joined the cluster makes, in order.
CallsFrom(x, y, value) ==
  [k \in 1..Len(Neighbours(x, y)) |->
     [x |-> Neighbours(x, y)[k][1], y |-> Neighbours(x, y)[k][2], threshold |-> value]]

\* One invocation of assign_group_dimmer (lines 96-126) on the cluster the
\* seed has taken: its four tests, then the append and its eight calls.
FillStep ==
  /\ pc = "fill"
  /\ \E slot \in {cluster_group.size - 1}, call \in {Head(calls)} :
       IF \/ ClusterFull(cluster_group.clusters[slot].pixels)
          \/ \E m \in 1..Len(cluster_group.clusters[slot].pixels) :
               /\ cluster_group.clusters[slot].pixels[m].x = call.x
               /\ cluster_group.clusters[slot].pixels[m].y = call.y
          \/ ValueAt(pixels, call.x, call.y) = 0
          \/ TooBright(ValueAt(pixels, call.x, call.y), call.threshold)
       THEN /\ calls' = Tail(calls)
            /\ pc' = IF Tail(calls) = <<>> THEN "seed" ELSE "fill"
            /\ UNCHANGED cluster_groups
       ELSE /\ cluster_groups' =
                 WithCurrent(cluster_group.size,
                   [cluster_group.clusters EXCEPT
                      ![slot].pixels = Append(@, pixels[call.y * WIDTH + call.x])])
            /\ calls' = CallsFrom(call.x, call.y, pixels[call.y * WIDTH + call.x].value)
                          \o Tail(calls)
            /\ pc' = "fill"
  /\ events' = <<>>
  /\ UNCHANGED <<current_cluster_group, pos, eof, n, frames, last_read, heatmaps,
                 prior_heatmaps, latest, pixels, scan, pair, report_size>>

\* The pair the overlap loops visit after <<i, j>>.
NextPair(i, j, size) == IF j + 1 < size THEN <<i, j + 1>> ELSE <<i + 1, i + 2>>

\* The body of the overlap loops for one pair (lines 374-395).
OverlapStep ==
  /\ pc = "overlap"
  /\ cluster_groups' =
       WithCurrent(cluster_group.size,
         SuppressPair(cluster_group.clusters,
                      OverlapLoser(cluster_group.clusters, pair[1], pair[2])))
  /\ pair' = NextPair(pair[1], pair[2], cluster_group.size)
  /\ pc' = IF NextPair(pair[1], pair[2], cluster_group.size)[2] < cluster_group.size
           THEN "overlap" ELSE "track"
  /\ events' = <<>>
  /\ UNCHANGED <<current_cluster_group, pos, eof, n, frames, last_read, heatmaps,
                 prior_heatmaps, latest, pixels, calls, scan, report_size>>

\* The tracker, the new ids, the sink and the cursor (lines 397-530).
TrackStep ==
  /\ pc = "track"
  /\ \E done \in {AssignNewIds(Correlate(cluster_group, previous_cluster_group))} :
       /\ cluster_groups' = [cluster_groups EXCEPT ![1 - current_cluster_group] = done]
       /\ events' = EmitFrame(done)
       /\ latest' = done
  /\ heatmaps' = heatmaps + 1
  /\ last_read' = last_read
  /\ UNCHANGED <<pixels, walk>>
  /\ AfterReport(report_size)

\* ------------------------------------------------------------------------
\* SpecFill: the step-by-step walk on a plateau larger than a cluster and
\* with more brightest cells than a group has slots
\* ------------------------------------------------------------------------
BlockWidth == 12
BlockHeight == 11

\* A plateau of value 150 in the corner of the grid.
Block ==
  FrameOf({<<x, y, 150>> : x \in 0..(BlockWidth - 1), y \in 0..(BlockHeight - 1)})

\* A buffer holds one sub-frame of one or two heatmap reports: the second
\* report finds the clusters the first has filled.
FillRead == ReadBuffer({HID_TYPE_RAW}, {1})
FillFrame == FrameHeader({FRAME_TYPE_A},
                         {REPORT_HEADER_SIZE + HEATMAP_BYTES,
                          2 * (REPORT_HEADER_SIZE + HEATMAP_BYTES)})
FillBegin == BeginHeatmap({HEATMAP_BYTES}, {Block})

NextFill ==
  FillRead \/ FillFrame \/ FillBegin \/ SeedStep \/ FillStep \/ OverlapStep \/ TrackStep

SpecFill == Init /\ [][NextFill]_vars

\* ------------------------------------------------------------------------
\* SpecOverlap: the step-by-step walk on rows of three samples whose
\* clusters' boxes overlap
\* ------------------------------------------------------------------------
Levels == {50, 100, 150}
Row(a, b, c) == FrameOf({<<0, 0, a>>, <<1, 0, b>>, <<2, 0, c>>})

OverlapRead == ReadBuffer({HID_TYPE_RAW}, {1})
OverlapFrame == FrameHeader({FRAME_TYPE_A}, {REPORT_HEADER_SIZE + HEATMAP_BYTES})
OverlapBegin == BeginHeatmap({HEATMAP_BYTES}, {Row(a, b, c) : a, b, c \in Levels})

NextOverlap ==
  OverlapRead \/ OverlapFrame \/ OverlapBegin \/ SeedStep \/ FillStep \/ OverlapStep \/ TrackStep

SpecOverlap == Init /\ [][NextOverlap]_vars

\* ------------------------------------------------------------------------
\* SpecGap: one report per buffer, and buffers that hold no heatmap report
\* ------------------------------------------------------------------------
\* A buffer's HID type is 0xEE or not, it holds no sub-frame or one, of a
\* type the decoder walks or not, and the sub-frame holds one report: a
\* stylus report, a report of unknown type or a heatmap report.
GapFrame == FrameHeader({FRAME_TYPE_A, FRAME_TYPE_B, 0}, {REPORT_HEADER_SIZE + HEATMAP_BYTES})

NextGap == ShortRead \/ Read \/ GapFrame \/ Stylus \/ Unknown \/ Heatmap

SpecGap == Init /\ [][NextGap]_vars

\* ------------------------------------------------------------------------
\* What the properties below speak of
\* ------------------------------------------------------------------------
\* The latest step was a heatmap report: only that step writes to the sink.
Processed == events # <<>>

\* The heatmap report just processed was the first of its buffer, and the
\* buffer before held exactly one: the current set was zeroed by this
\* buffer's read and the previous set is what that one report left.
PlainPair == Processed /\ heatmaps = 1 /\ prior_heatmaps = 1

\* The current set: the indices below size, and those of them that are valid.
Current == 0..(cluster_group.size - 1)
ValidNow == {i \in Current : cluster_group.clusters[i].valid = 1}
ValidBefore ==
  {i \in 0..(previous_cluster_group.size - 1) : previous_cluster_group.clusters[i].valid = 1}

CodeCount(code, value) ==
  Cardinality({k \in 1..Len(events) : events[k].code = code /\ events[k].value = value})

\* ------------------------------------------------------------------------
\* C1 - ID uniqueness
\* ------------------------------------------------------------------------
\* C1: after any heatmap report has been processed, every valid cluster of
\* the current set has id >= 1 and no two valid clusters of the current set
\* hold the same id.
IdUniqueness ==
  Processed =>
    /\ \A i \in ValidNow : cluster_group.clusters[i].id >= 1
    /\ \A i, j \in ValidNow :
         i # j => cluster_group.clusters[i].id # cluster_group.clusters[j].id

\* ------------------------------------------------------------------------
\* C2 - ID persistence
\* ------------------------------------------------------------------------
\* c of the current set is strictly nearer to p of the previous set than
\* every other valid cluster of the current set.
StrictlyNearest(c, p) ==
  \A o \in ValidNow \ {c} :
    RLess(Distance(cluster_group.clusters[c], previous_cluster_group.clusters[p]),
          Distance(cluster_group.clusters[o], previous_cluster_group.clusters[p]))

\* No other valid cluster of the previous set is nearer to c than p is.
NoCloserCompetitor(c, p) ==
  \A q \in ValidBefore \ {p} :
    ~RLess(Distance(cluster_group.clusters[c], previous_cluster_group.clusters[q]),
           Distance(cluster_group.clusters[c], previous_cluster_group.clusters[p]))

\* C2: for two consecutively processed heatmap frames N and N+1, if P is a
\* valid cluster of N and C a valid cluster of N+1, C is strictly nearer to
\* P than every other valid cluster of N+1 and no other valid cluster of N
\* is nearer to C than P is, then C.id = P.id after the tracker has run.
IdPersistence ==
  PlainPair =>
    \A c \in ValidNow, p \in ValidBefore :
      (StrictlyNearest(c, p) /\ NoCloserCompetitor(c, p))
        => cluster_group.clusters[c].id = previous_cluster_group.clusters[p].id

\* ------------------------------------------------------------------------
\* C3 - Sink event grammar
\* ------------------------------------------------------------------------
\* The multi-touch events and the synchronisation marker of the latest step.
IsSlotEvent(e) ==
  e.code \in {"ABS_MT_SLOT", "ABS_MT_POSITION_X", "ABS_MT_POSITION_Y",
              "ABS_MT_TOUCH_MAJOR", "ABS_MT_TRACKING_ID", "SYN_REPORT"}
SlotEvents == SelectSeq(events, IsSlotEvent)

\* The valid clusters of the current set whose id is slot + 1.
HoldersOf(slot) == {i \in ValidNow : cluster_group.clusters[i].id = slot + 1}

\* What the grammar prescribes for one slot.
SlotGrammar(slot) ==
  IF HoldersOf(slot) = {}
  THEN << emit("EV_ABS", "ABS_MT_SLOT", slot), emit("EV_ABS", "ABS_MT_TRACKING_ID", -1) >>
  ELSE LET c == cluster_group.clusters[CHOOSE i \in HoldersOf(slot) : TRUE]
       IN  << emit("EV_ABS", "ABS_MT_SLOT", slot),
              emit("EV_ABS", "ABS_MT_POSITION_X", RTrunc(RMul(c.centre_x, RInt(SCALE)))),
              emit("EV_ABS", "ABS_MT_POSITION_Y", RTrunc(RMul(c.centre_y, RInt(SCALE)))),
              emit("EV_ABS", "ABS_MT_TOUCH_MAJOR", RTrunc(RMul(c.diameter, RInt(SCALE)))),
              emit("EV_ABS", "ABS_MT_TRACKING_ID", slot + 1) >>

RECURSIVE FrameGrammar(_)
FrameGrammar(slot) ==
  IF slot >= MATCH_SLOTS THEN << emit("EV_SYN", "SYN_REPORT", 0) >>
  ELSE SlotGrammar(slot) \o FrameGrammar(slot + 1)

\* C3: for every processed heatmap report the emitted events are, for
\* n = 0 .. 5 in increasing order, a slot-select event with value n, then
\* (only if a valid cluster of the current set has id n+1) that cluster's
\* position and touch-major events, then exactly one tracking-ID event whose
\* value is n+1 if a valid cluster has id n+1 and -1 otherwise; the frame
\* ends with exactly one synchronisation marker.
EventGrammar == Processed => SlotEvents = FrameGrammar(0)

\* ------------------------------------------------------------------------
\* C4 - Bounds-checked decoding
\* ------------------------------------------------------------------------
\* C4: the decoder never reads a header or payload byte at an offset >= 7485:
\* a declared count or size that would take the cursor past the end of the
\* buffer stops the decoding of that buffer.
ReadsInBounds == last_read <= BUF_SIZE

\* ------------------------------------------------------------------------
\* C5 - Cluster disjointness
\* ------------------------------------------------------------------------
CellsOf(c) == {<<c.pixels[k].x, c.pixels[k].y>> : k \in 1..Len(c.pixels)}

\* C5: after segmentation of any heatmap no grid cell is a member of two
\* different clusters of the current set (stated for a heatmap segmented
\* into a freshly zeroed set).
Disjointness ==
  (Processed /\ heatmaps = 1) =>
    \A i, j \in Current :
      i # j => CellsOf(cluster_group.clusters[i]) \cap CellsOf(cluster_group.clusters[j]) = {}

\* ------------------------------------------------------------------------
\* C6 - Giant-contact veto
\* ------------------------------------------------------------------------
\* At least one cluster of the current set has diameter > 10.
GiantPresent ==
  \E i \in Current : RLess(RInt(10), cluster_group.clusters[i].diameter)

\* C6: for every processed heatmap in which at least one cluster has
\* diameter > 10, no cluster of the current set is valid after processing,
\* and the frame emitted carries tracking ID -1 in all six slots, no
\* touch-down event and one touch-up key event.
GiantContactVeto ==
  (Processed /\ GiantPresent) =>
    /\ ValidNow = {}
    /\ CodeCount("ABS_MT_TRACKING_ID", -1) = MATCH_SLOTS
    /\ \A k \in 1..Len(events) :
         events[k].code = "ABS_MT_TRACKING_ID" => events[k].value = -1
    /\ CodeCount("BTN_TOUCH", 1) = 0
    /\ CodeCount("BTN_TOUCH", 0) = 1

\* A palm lands while the frame before it held a valid contact, and a
\* cluster of the palm's frame is small enough to be valid on its own.
GiantContactSeen ==
  /\ Processed
  /\ GiantPresent
  /\ ValidBefore # {}
  /\ \E i \in Current :
       /\ RLess(Rat(1, 2), cluster_group.clusters[i].diameter)
       /\ ~RLess(RInt(10), cluster_group.clusters[i].diameter)

\* ------------------------------------------------------------------------
\* C7 - ID recycling
\* ------------------------------------------------------------------------
\* The valid cluster of the previous frame that holds id.
HeldBy(id) == CHOOSE p \in ValidBefore : previous_cluster_group.clusters[p].id = id

SameCentre(c, p) ==
  /\ cluster_group.clusters[c].centre_x = previous_cluster_group.clusters[p].centre_x
  /\ cluster_group.clusters[c].centre_y = previous_cluster_group.clusters[p].centre_y

\* The frame before had exactly three valid contacts holding ids 1, 2, 3;
\* in this one the holder of 2 is absent, the holders of 1 and 3 are present
\* at unchanged centres and one new contact is present.
MiddleLifted ==
  /\ PlainPair
  /\ Cardinality(ValidBefore) = 3
  /\ {previous_cluster_group.clusters[p].id : p \in ValidBefore} = {1, 2, 3}
  /\ Cardinality(ValidNow) = 3
  /\ \E c \in ValidNow : SameCentre(c, HeldBy(1))
  /\ \E c \in ValidNow : SameCentre(c, HeldBy(3))
  /\ ~\E c \in ValidNow : SameCentre(c, HeldBy(2))

\* C7: in that case the new contact is assigned id 2, the lowest free
\* positive integer.
IdRecycling ==
  MiddleLifted =>
    \A c \in ValidNow :
      (~SameCentre(c, HeldBy(1)) /\ ~SameCentre(c, HeldBy(3)))
        => cluster_group.clusters[c].id = 2

\* ------------------------------------------------------------------------
\* C8 - Single-touch key event
\* ------------------------------------------------------------------------
\* C8: every processed heatmap frame emits exactly one touch key event
\* before its synchronisation marker: a touch-down together with the
\* single-touch absolute X/Y when exactly one cluster of the current set is
\* valid, a touch-up when the number of valid clusters is anything else.
SingleTouchKey ==
  Processed =>
    /\ Cardinality({k \in 1..Len(events) : events[k].code = "BTN_TOUCH"}) = 1
    /\ events[Len(events)].code = "SYN_REPORT"
    /\ IF Cardinality(ValidNow) = 1
       THEN /\ CodeCount("BTN_TOUCH", 1) = 1
            /\ Cardinality({k \in 1..Len(events) : events[k].code = "ABS_X"}) = 1
            /\ Cardinality({k \in 1..Len(events) : events[k].code = "ABS_Y"}) = 1
       ELSE CodeCount("BTN_TOUCH", 0) = 1

\* ------------------------------------------------------------------------
\* C9 - Size bounds
\* ------------------------------------------------------------------------
\* No cluster holds more than MAX_CLUSTER_SIZE members and no group more
\* than MAX_CLUSTERS clusters, at any step.
SizeBounds ==
  \A g \in 0..1 :
    /\ cluster_groups[g].size <= MAX_CLUSTERS
    /\ \A i \in DOMAIN cluster_groups[g].clusters :
         Len(cluster_groups[g].clusters[i].pixels) <= MAX_CLUSTER_SIZE

\* What a flood has left to do at most: eight invocations for every pixel
\* the cluster can still take, and the invocations pending.
FillMeasure ==
  8 * (MAX_CLUSTER_SIZE - Len(cluster_group.clusters[cluster_group.size - 1].pixels))
  + Len(calls)

\* C9: each cluster's member count never exceeds MAX_CLUSTER_SIZE = 128 and
\* the current set's cluster count never exceeds MAX_CLUSTERS = 16, and the
\* flood fill from any seed terminates: every invocation of
\* assign_group_dimmer lowers a measure that is never negative.
SizeBoundsAndTermination ==
  /\ []SizeBounds
  /\ [][pc = "fill" => (0 <= FillMeasure' /\ FillMeasure' < FillMeasure)]_vars

\* Both bounds bind: the heatmap holds more than MAX_CLUSTER_SIZE cells of
\* one plateau and more than MAX_CLUSTERS brightest cells, every slot is
\* taken, a cluster is full and the floods are over.
BoundsReached ==
  /\ pc = "track"
  /\ Cardinality(DOMAIN pixels) > MAX_CLUSTER_SIZE
  /\ Cardinality({k \in DOMAIN pixels : is_brightest(pixels, k % WIDTH, k \div WIDTH)})
       > MAX_CLUSTERS
  /\ cluster_group.size = MAX_CLUSTERS
  /\ \E i \in Current : Len(cluster_group.clusters[i].pixels) = MAX_CLUSTER_SIZE

\* ------------------------------------------------------------------------
\* C10 - Overlap suppression
\* ------------------------------------------------------------------------
SmallerArea(a, b) == RMin(Area(a), Area(b))

\* Both clusters are valid and their boxes' intersection exceeds 0.25 of
\* the smaller box's area.
Exceeds(a, b) ==
  a.valid = 1 /\ b.valid = 1 /\ Overlaps(Intersection(a, b), SmallerArea(a, b))

\* The pass, examining the pair <<i, j>>, invalidates loser and keeps keeper.
Invalidates(loser, keeper) ==
  /\ cluster_groups'[1 - current_cluster_group].clusters[loser].valid = 0
  /\ cluster_groups'[1 - current_cluster_group].clusters[keeper].valid = 1
  /\ ~RLess(Area(cluster_group.clusters[keeper]), Area(cluster_group.clusters[loser]))

ExaminesExceeding ==
  pc = "overlap" /\ Exceeds(cluster_group.clusters[pair[1]], cluster_group.clusters[pair[2]])

\* After the pass no two clusters that remain valid exceed.
NoneExceeds ==
  pc = "track" =>
    \A i, j \in Current :
      i # j => ~Exceeds(cluster_group.clusters[i], cluster_group.clusters[j])

ValidOf(group) == {i \in 0..(group.size - 1) : group.clusters[i].valid = 1}

\* This step processes the first heatmap report of its buffer, the buffer
\* read before it held no heatmap report, and an earlier heatmap report left
\* valid clusters.
AfterGap ==
  /\ heatmaps = 0
  /\ heatmaps' = 1
  /\ prior_heatmaps = 0
  /\ ValidOf(latest) # {}

\* C11: if two heatmap frames are processed with one or more full-size
\* buffers read in between that hold no heatmap report, a contact of the
\* second frame whose centre is that of a valid cluster of the first frame
\* has the id that cluster had.
TrackingSurvivesGap ==
  [][AfterGap =>
       \A p \in ValidOf(latest), c \in ValidOf(latest') :
         (/\ latest'.clusters[c].centre_x = latest.clusters[p].centre_x
          /\ latest'.clusters[c].centre_y = latest.clusters[p].centre_y)
           => latest'.clusters[c].id = latest.clusters[p].id]_vars

\* ------------------------------------------------------------------------
\* C12 - Fresh current set per heatmap
\* ------------------------------------------------------------------------
\* Every cluster slot of the current set has no member, valid 0 and id 0.
SlotsZero ==
  \A i \in DOMAIN cluster_group.clusters :
    /\ cluster_group.clusters[i].pixels = <<>>
    /\ cluster_group.clusters[i].valid = 0
    /\ cluster_group.clusters[i].id = 0

\* What lines 329-435 make of the heatmap in the pixels buffer when they
\* start from a zeroed set: valid is set exactly when diameter > 0.5.
FromZeroedSet ==
  AssignNewIds(Correlate(RemoveOverlapping(Veto(Geometry(Segment(pixels, ZeroGroup)))),
                         previous_cluster_group))

\* The members, valid flags and ids of the heatmap just processed are those
\* a zeroed set yields.
IndependentOfEarlier == Processed => cluster_group = FromZeroedSet

\* C12: whenever the report loop stands before a report, which may be a
\* heatmap report, every cluster slot of the current set has size 0, valid 0
\* and id 0, also after an earlier heatmap report of the same buffer; and
\* the members, valid flags and ids computed for a heatmap are those that
\* segmentation into a zeroed set yields, whatever an earlier heatmap report
\* of the same buffer held.
FreshCurrentSet ==
  /\ pc = "report" => SlotsZero
  /\ IndependentOfEarlier

====
